---------------------------- MODULE Spec2Model ----------------------------
(***************************************************************************)
(* A model of tinydb's Table (src/tinydb/table.py): document ID            *)
(* allocation, the query cache, and the read / write operations, each      *)
(* translated from its method body.  A Python exception ends the call at   *)
(* the statement that raises it; what the call changed before that stays   *)
(* changed.  Document IDs are integers throughout, as Table uses them      *)
(* (doc_id in table, max(keys) + 1); Table converts no key.                *)
(***************************************************************************)
EXTENDS Integers, Sequences, FiniteSets, TLC

(* ---------------------------- bounds ----------------------------------- *)

\* document IDs of the stored documents and of the doc_id arguments: 1..MaxId
MaxId == 2

\* the in-memory ID counter is explored up to this value
MaxNextId == 3

\* Table.default_query_cache_capacity
default_query_cache_capacity == 10

(* ---------------------------- values ----------------------------------- *)

\* the name of the modelled Table (self._name) and of another table of the
\* same storage
Name == "t"

OtherName == "o"

FieldNames == {"x"}

Values == {1, 2}

\* A field mapping (a Python dict): a set of <<field, value>> pairs with at
\* most one pair for each field.
Mappings ==
    {m \in SUBSET (FieldNames \X Values) :
        \A p \in m, q \in m : p[1] = q[1] => p = q}

EmptyMapping == {}

\* Python's None for an Optional[int]: <<>> is None, <<n>> is the integer n
None == <<>>

Some(n) == <<n>>

\* the cond argument: None, or one of two predicate objects
NoCond == "None"

Queries == {"x1", "x2"}

Conds == Queries \cup {NoCond}

\* cond(doc) for a predicate object: "x1" is where('x') == 1, "x2" is
\* where('x') == 2
Eval(cond, fields) ==
    IF cond = "x1" THEN <<"x", 1>> \in fields ELSE <<"x", 2>> \in fields

IDs == 1..MaxId

\* the table-data mappings (doc_id -> fields) the storage may hold
TableData == UNION {[S -> Mappings] : S \in SUBSET IDs}

EmptyTable == [i \in {} |-> EmptyMapping]

RECURSIVE Max(_)
Max(S) ==
    LET x == CHOOSE y \in S : TRUE
    IN  IF S = {x} THEN x
        ELSE LET m == Max(S \ {x}) IN IF x > m THEN x ELSE m

\* the keys of a table-data mapping in iteration order (ascending ID)
RECURSIVE Items(_)
Items(S) ==
    IF S = {} THEN <<>>
    ELSE LET m == Max(S) IN Append(Items(S \ {m}), m)

(* ---------------------------- Document --------------------------------- *)

\* Document(value, doc_id): a dict of the fields that carries doc_id
Document(value, doc_id) == [doc_id |-> doc_id, fields |-> value]

\* truth value of a Document: a dict is falsy exactly when it is empty
Truthy(document) == document.fields # EmptyMapping

(* ---------------------------- LRUCache --------------------------------- *)

\* The cache is a sequence of entries, least recently used first.
CacheHas(c, key) == \E i \in 1..Len(c) : c[i].key = key

CacheDrop(c, key) == SelectSeq(c, LAMBDA e : e.key # key)

CacheVal(c, key) ==
    LET i == CHOOSE j \in 1..Len(c) : c[j].key = key IN c[i].val

\* cache[key]: the value, and the key becomes the most recently used
CacheGet(c, key) ==
    Append(CacheDrop(c, key), [key |-> key, val |-> CacheVal(c, key)])

\* cache[key] = val: insert or overwrite as most recently used, then evict
\* the least recently used entry while the size exceeds the capacity
CacheSet(c, cap, key, val) ==
    LET put == Append(CacheDrop(c, key), [key |-> key, val |-> val])
    IN  IF Len(put) > cap THEN Tail(put) ELSE put

CacheClear == <<>>

\* the callers that run _update_table side by side
Writers == {1, 2}

EmptySnapshot == << >>

(* ---------------------------- state ------------------------------------ *)

VARIABLES
    storage,      \* the snapshot the storage holds: table name -> table-data
    aliased,      \* storage.read() hands out the mapping it holds (TRUE) or a fresh copy
    capacity,     \* cache_size given to the constructor
    query_cache,  \* self._query_cache
    next_id,      \* self._next_id
    last,         \* the last call: its arguments, how it ended, what it returned
    with_mutex,   \* callers of _update_table hold a mutex around the whole call
    lock,         \* the holder of that mutex, None when it is free
    pc,           \* per caller of _update_table: the line it executes next
    local_data    \* per caller of _update_table: its local `data`

wvars == <<with_mutex, lock, pc, local_data>>

vars == <<storage, aliased, capacity, query_cache, next_id, last, wvars>>

\* the record of a call; every field has one type throughout
Call(op, outcome, lenBefore) ==
    [op |-> op, outcome |-> outcome, lenBefore |-> lenBefore,
     document |-> EmptyMapping, cond |-> NoCond, doc_id |-> None,
     byIds |-> FALSE, doc_ids |-> <<>>,
     allocated |-> None, retIds |-> <<>>, retDocs |-> <<>>,
     retBool |-> FALSE, retInt |-> 0, evals |-> 0]

(* ---------------------------- Storage ---------------------------------- *)

\* storage.read(): the whole snapshot
StorageRead(s) == s

\* storage.write(snapshot) replaces the persisted state by the one snapshot
\* it is given
StorageWrite(s, snapshot) == snapshot

\* storage.write(name, entries): write takes the snapshot and nothing
\* else, so a call with two arguments raises TypeError and writes nothing
StorageWrite2(s, name, entries) == [outcome |-> "TypeError", storage |-> s]

(* ---------------------------- Table: reads ----------------------------- *)

\* _read_table: storage.read().get(self._name, {})
ReadTable(s) ==
    IF Name \in DOMAIN StorageRead(s) THEN StorageRead(s)[Name] ELSE EmptyTable

\* all(): a Document for every item of _read_table()
All(s) ==
    LET tbl == ReadTable(s)
        ids == Items(DOMAIN tbl)
    IN  [k \in 1..Len(ids) |-> Document(tbl[ids[k]], ids[k])]

\* search(cond): the cached list on a hit; else the documents of all() that
\* cond accepts, stored under cond.  Calling cond when it is None raises
\* TypeError, which happens once all() yields a document.
\* search(cond) that never looks the predicate up in the query cache
SearchNoCache(s, c, cap, cond) ==
    IF cond = NoCond /\ Len(All(s)) > 0
    THEN [outcome |-> "TypeError", docs |-> <<>>, cache |-> c, evals |-> 1]
    ELSE LET docs == SelectSeq(All(s), LAMBDA d : Eval(cond, d.fields))
         IN  [outcome |-> "ok", docs |-> docs, cache |-> CacheSet(c, cap, cond, docs),
              evals |-> Len(All(s))]

\* evals counts the calls of cond the search makes: one per document of
\* all() on a miss, none on a hit.
Search(s, c, cap, cond) ==
    IF CacheHas(c, cond)
    THEN [outcome |-> "ok", docs |-> CacheVal(c, cond), cache |-> CacheGet(c, cond),
          evals |-> 0]
    ELSE IF cond = NoCond /\ Len(All(s)) > 0
    THEN [outcome |-> "TypeError", docs |-> <<>>, cache |-> c, evals |-> 1]
    ELSE LET docs == SelectSeq(All(s), LAMBDA d : Eval(cond, d.fields))
         IN  [outcome |-> "ok", docs |-> docs, cache |-> CacheSet(c, cap, cond, docs),
              evals |-> Len(All(s))]

\* _get_next_id counting the documents instead of taking the maximum ID
GetNextIdByLen(s, nid) ==
    IF nid = None
    THEN Cardinality(DOMAIN ReadTable(s)) + 1
    ELSE nid[1] + 1

\* _get_next_id handing the stored counter out again instead of advancing it
GetNextIdNoIncrement(s, nid) ==
    IF nid = None
    THEN (IF DOMAIN ReadTable(s) # {} THEN Max(DOMAIN ReadTable(s)) ELSE Max({0})) + 1
    ELSE nid[1]

\* _get_next_id
GetNextId(s, nid) ==
    IF nid = None
    THEN (IF DOMAIN ReadTable(s) # {} THEN Max(DOMAIN ReadTable(s)) ELSE Max({0})) + 1
    ELSE nid[1] + 1

(* ---------------------------- Init ------------------------------------- *)

TypeOK ==
    /\ DOMAIN storage \subseteq {Name, OtherName}
    /\ aliased \in BOOLEAN
    /\ capacity \in Nat
    /\ Len(query_cache) <= capacity

\* A Table is constructed over a storage that may already hold documents;
\* the constructor reads nothing, the cache is empty and _next_id is None.
Init ==
    /\ \E S \in SUBSET {Name}, data \in TableData :
          /\ S = {} => data = EmptyTable
          /\ storage = [n \in S \cup {OtherName} |->
                          IF n = Name THEN data ELSE [i \in {1} |-> {<<"x", 1>>}]]
    /\ aliased \in BOOLEAN
    /\ capacity \in {0, default_query_cache_capacity}
    /\ query_cache = CacheClear
    /\ next_id = None
    /\ last = Call("init", "ok", 0)
    /\ with_mutex = FALSE
    /\ lock = None
    /\ pc = [w \in Writers |-> "done"]
    /\ local_data = [w \in Writers |-> EmptySnapshot]

(* ---------------------------- Table: calls ----------------------------- *)

\* Table defines neither _update_document nor _write_table: the attribute
\* lookup self._update_document / self._write_table raises AttributeError.
MissingMethod == "AttributeError"

\* contains(doc_id=doc_id): doc_id in self._read_table()
ContainsId(s, doc_id) == doc_id \in DOMAIN ReadTable(s)

\* get(doc_id=doc_id): Document(table.get(doc_id, {}), doc_id) or None,
\* as a list of at most one Document (<<>> is None)
GetById(s, doc_id) ==
    LET tbl == ReadTable(s)
        d == Document(IF doc_id \in DOMAIN tbl THEN tbl[doc_id] ELSE EmptyMapping, doc_id)
    IN  IF Truthy(d) THEN <<d>> ELSE <<>>

\* get(doc_ids=doc_ids): the Documents of the given IDs that exist
GetByIds(s, doc_ids) ==
    LET tbl == ReadTable(s)
        present == SelectSeq(doc_ids, LAMBDA i : i \in DOMAIN tbl)
    IN  [k \in 1..Len(present) |-> Document(tbl[present[k]], present[k])]

\* _update_table(updater): read the snapshot, put the table-data that
\* updater left (updated) under self._name, write the snapshot back, clear
\* the cache.  No method of Table calls it.
UpdateTable(s, updated) ==
    LET data == [n \in DOMAIN StorageRead(s) \cup {Name} |->
                   IF n = Name THEN updated ELSE StorageRead(s)[n]]
    IN  [storage |-> StorageWrite(s, data), cache |-> CacheClear]

\* the body of insert: the ID is allocated, then the storage is written,
\* then the cache is cleared
InsertCall(s, c, nid, document) ==
    LET doc_id == GetNextId(s, nid)
        w == StorageWrite2(s, Name, [i \in {doc_id} |-> document])
    IN  [outcome |-> w.outcome, doc_id |-> doc_id, next_id |-> Some(doc_id),
         storage |-> w.storage,
         cache |-> IF w.outcome = "ok" THEN CacheClear ELSE c]

\* the body of insert_multiple: insert per document, in order
RECURSIVE InsertMultipleCall(_, _, _, _)
InsertMultipleCall(s, c, nid, documents) ==
    IF documents = <<>>
    THEN [outcome |-> "ok", doc_ids |-> <<>>, next_id |-> nid, storage |-> s, cache |-> c]
    ELSE LET r == InsertCall(s, c, nid, Head(documents))
         IN  IF r.outcome # "ok"
             THEN [outcome |-> r.outcome, doc_ids |-> <<>>, next_id |-> r.next_id,
                   storage |-> r.storage, cache |-> r.cache]
             ELSE LET rest == InsertMultipleCall(r.storage, r.cache, r.next_id,
                                                 Tail(documents))
                  IN  [rest EXCEPT !.doc_ids = <<r.doc_id>> \o rest.doc_ids]

\* the body of update: the first target found reaches
\* self._update_document, which does not exist
UpdateCall(s, c, cap, fields, cond, byIds, doc_ids) ==
    IF byIds
    THEN IF \E k \in 1..Len(doc_ids) : ContainsId(s, doc_ids[k])
         THEN [outcome |-> MissingMethod, updated |-> <<>>, cache |-> c]
         ELSE [outcome |-> "ok", updated |-> <<>>, cache |-> c]
    ELSE LET r == Search(s, c, cap, cond)
         IN  IF r.outcome # "ok"
             THEN [outcome |-> r.outcome, updated |-> <<>>, cache |-> r.cache]
             ELSE IF Len(r.docs) > 0
             THEN [outcome |-> MissingMethod, updated |-> <<>>, cache |-> r.cache]
             ELSE [outcome |-> "ok", updated |-> <<>>, cache |-> r.cache]

\* del self._read_table()[doc_id]: with an aliased storage the entry leaves
\* the mapping the storage holds, else it leaves a copy that is dropped
Del(tbl, al, doc_id) ==
    IF al THEN [i \in DOMAIN tbl \ {doc_id} |-> tbl[i]] ELSE tbl

\* the loops of remove over the table-data tbl.  guarded: the doc_ids
\* loop tests "doc_id in self._read_table()" first; the cond loop deletes
\* without a test, and del of a missing key raises KeyError.
RECURSIVE RemoveLoop(_, _, _, _)
RemoveLoop(tbl, al, ids, guarded) ==
    IF ids = <<>> THEN [outcome |-> "ok", tbl |-> tbl, removed |-> <<>>]
    ELSE LET doc_id == Head(ids)
         IN  IF doc_id \notin DOMAIN tbl
             THEN IF guarded THEN RemoveLoop(tbl, al, Tail(ids), guarded)
                  ELSE [outcome |-> "KeyError", tbl |-> tbl, removed |-> <<doc_id>>]
             ELSE LET rest == RemoveLoop(Del(tbl, al, doc_id), al, Tail(ids), guarded)
                  IN  [rest EXCEPT !.removed = <<doc_id>> \o rest.removed]

\* the snapshot reduced to this table's data: the other tables are dropped
WithTableOnly(s, tbl) ==
    IF Name \in DOMAIN s THEN [n \in {Name} |-> tbl] ELSE s

\* the snapshot with this table's data replaced (a table the snapshot
\* does not hold was read as a fresh {} and is not part of the snapshot)
WithTable(s, tbl) ==
    IF Name \in DOMAIN s THEN [s EXCEPT ![Name] = tbl] ELSE s

\* the body of remove: the loop, then self._write_table, which does not exist
RemoveCall(s, c, cap, al, cond, byIds, doc_ids) ==
    IF byIds
    THEN LET l == RemoveLoop(ReadTable(s), al, doc_ids, TRUE)
         IN  [outcome |-> MissingMethod, storage |-> WithTable(s, l.tbl), cache |-> c]
    ELSE IF cond # NoCond
    THEN LET r == Search(s, c, cap, cond)
             l == RemoveLoop(ReadTable(s), al,
                             [k \in 1..Len(r.docs) |-> r.docs[k].doc_id], FALSE)
         IN  IF r.outcome # "ok"
             THEN [outcome |-> r.outcome, storage |-> s, cache |-> r.cache]
             ELSE [outcome |-> IF l.outcome = "ok" THEN MissingMethod ELSE l.outcome,
                   storage |-> WithTable(s, l.tbl), cache |-> r.cache]
    ELSE [outcome |-> MissingMethod, storage |-> s, cache |-> c]

\* the body of truncate: self._write_table does not exist
TruncateCall(s, c) == [outcome |-> MissingMethod, storage |-> s, cache |-> c]

\* the body of upsert.  doc_id is the ID the document carries: None for a
\* plain mapping (and for a Document whose doc_id is None).
UpsertCall(s, c, cap, nid, document, doc_id, cond) ==
    IF doc_id # None
    THEN IF ContainsId(s, doc_id[1])
         THEN LET u == UpdateCall(s, c, cap, document, NoCond, TRUE, <<doc_id[1]>>)
              IN  [outcome |-> u.outcome, ret |-> <<doc_id[1]>>,
                   next_id |-> nid, storage |-> s, cache |-> u.cache]
         ELSE LET r == InsertCall(s, c, nid, document)
              IN  [outcome |-> r.outcome, ret |-> <<r.doc_id>>,
                   next_id |-> r.next_id, storage |-> r.storage, cache |-> r.cache]
    ELSE LET u == UpdateCall(s, c, cap, document, cond, FALSE, <<>>)
         IN  IF u.outcome # "ok" \/ u.updated # <<>>
             THEN [outcome |-> u.outcome, ret |-> u.updated,
                   next_id |-> nid, storage |-> s, cache |-> u.cache]
             ELSE LET r == InsertCall(s, u.cache, nid, document)
                  IN  [outcome |-> r.outcome, ret |-> <<r.doc_id>>,
                       next_id |-> r.next_id, storage |-> r.storage, cache |-> r.cache]

(* ---------------------------- Table: operations ------------------------ *)

\* len(self)
Length == Cardinality(DOMAIN ReadTable(storage))

\* the counter stays within the explored range
Bounded(nid) == IF nid = None THEN TRUE ELSE nid[1] <= MaxNextId

\* the ID the call allocated last, None if it allocated none
Allocated(nid) == IF nid = next_id THEN None ELSE nid

\* what a call returned, or nothing when it raised
Ret(outcome, val, none) == IF outcome = "ok" THEN val ELSE none

\* the lists of document IDs given as doc_ids
IdLists == {<<>>} \cup {<<i>> : i \in IDs} \cup {<<1, MaxId>>}

\* the lists of documents given to insert_multiple
DocLists == {<<>>, <<{<<"x", 1>>}, EmptyMapping>>}

\* the fields given to update and the document given to upsert
Payloads == {{<<"x", 2>>}}

\* insert(document)
Insert(document) ==
    LET r == InsertCall(storage, query_cache, next_id, document)
    IN  /\ Bounded(r.next_id)
        /\ next_id' = r.next_id
        /\ storage' = r.storage
        /\ query_cache' = r.cache
        /\ last' = [Call("insert", r.outcome, Length)
                       EXCEPT !.document = document, !.allocated = Some(r.doc_id),
                              !.retInt = Ret(r.outcome, r.doc_id, 0)]
        /\ UNCHANGED <<wvars, aliased, capacity>>

\* insert_multiple(documents)
InsertMultiple(documents) ==
    LET r == InsertMultipleCall(storage, query_cache, next_id, documents)
    IN  /\ Bounded(r.next_id)
        /\ next_id' = r.next_id
        /\ storage' = r.storage
        /\ query_cache' = r.cache
        /\ last' = [Call("insert_multiple", r.outcome, Length)
                       EXCEPT !.allocated = Allocated(r.next_id),
                              !.retIds = Ret(r.outcome, r.doc_ids, <<>>)]
        /\ UNCHANGED <<wvars, aliased, capacity>>

\* all()
AllOp ==
    /\ last' = [Call("all", "ok", Length) EXCEPT !.retDocs = All(storage)]
    /\ UNCHANGED <<wvars, storage, aliased, capacity, query_cache, next_id>>

\* search(cond)
SearchOp(cond) ==
    LET r == Search(storage, query_cache, capacity, cond)
    IN  /\ query_cache' = r.cache
        /\ last' = [Call("search", r.outcome, Length)
                       EXCEPT !.cond = cond, !.retDocs = r.docs, !.evals = r.evals]
        /\ UNCHANGED <<wvars, storage, aliased, capacity, next_id>>

\* get(doc_id=doc_id)
GetId(doc_id) ==
    /\ last' = [Call("get", "ok", Length)
                   EXCEPT !.doc_id = Some(doc_id), !.retDocs = GetById(storage, doc_id)]
    /\ UNCHANGED <<wvars, storage, aliased, capacity, query_cache, next_id>>

\* get(doc_ids=doc_ids)
GetIds(doc_ids) ==
    /\ last' = [Call("get", "ok", Length)
                   EXCEPT !.byIds = TRUE, !.doc_ids = doc_ids,
                          !.retDocs = GetByIds(storage, doc_ids)]
    /\ UNCHANGED <<wvars, storage, aliased, capacity, query_cache, next_id>>

\* get(cond): the first document of search(cond), None without one; get()
\* with no selector returns None
GetCond(cond) ==
    LET r == IF cond # NoCond THEN Search(storage, query_cache, capacity, cond)
             ELSE [outcome |-> "ok", docs |-> <<>>, cache |-> query_cache]
    IN  /\ query_cache' = r.cache
        /\ last' = [Call("get", r.outcome, Length)
                       EXCEPT !.cond = cond,
                              !.retDocs = IF Len(r.docs) > 0 THEN <<r.docs[1]>> ELSE <<>>]
        /\ UNCHANGED <<wvars, storage, aliased, capacity, next_id>>

\* contains(doc_id=doc_id)
ContainsIdOp(doc_id) ==
    /\ last' = [Call("contains", "ok", Length)
                   EXCEPT !.doc_id = Some(doc_id), !.retBool = ContainsId(storage, doc_id)]
    /\ UNCHANGED <<wvars, storage, aliased, capacity, query_cache, next_id>>

\* contains(cond): len(search(cond)) > 0; contains() returns False
ContainsCond(cond) ==
    LET r == IF cond # NoCond THEN Search(storage, query_cache, capacity, cond)
             ELSE [outcome |-> "ok", docs |-> <<>>, cache |-> query_cache]
    IN  /\ query_cache' = r.cache
        /\ last' = [Call("contains", r.outcome, Length)
                       EXCEPT !.cond = cond, !.retBool = Len(r.docs) > 0]
        /\ UNCHANGED <<wvars, storage, aliased, capacity, next_id>>

\* count(cond): len(search(cond))
Count(cond) ==
    LET r == Search(storage, query_cache, capacity, cond)
    IN  /\ query_cache' = r.cache
        /\ last' = [Call("count", r.outcome, Length)
                       EXCEPT !.cond = cond, !.retInt = Len(r.docs)]
        /\ UNCHANGED <<wvars, storage, aliased, capacity, next_id>>

\* len(table) reading through setdefault: the table's entry is created in
\* the snapshot when it is missing
LenOpSetDefault ==
    /\ last' = [Call("len", "ok", Length) EXCEPT !.retInt = Length]
    /\ storage' = [n \in DOMAIN storage \cup {Name} |->
                     IF n \in DOMAIN storage THEN storage[n] ELSE EmptyTable]
    /\ UNCHANGED <<wvars, aliased, capacity, query_cache, next_id>>

\* len(table)
LenOp ==
    /\ last' = [Call("len", "ok", Length) EXCEPT !.retInt = Length]
    /\ UNCHANGED <<wvars, storage, aliased, capacity, query_cache, next_id>>

\* iter(table): a Document for every item of a fresh read of the table
IterOp ==
    /\ last' = [Call("iter", "ok", Length) EXCEPT !.retDocs = All(storage)]
    /\ UNCHANGED <<wvars, storage, aliased, capacity, query_cache, next_id>>

\* update(fields, cond) and update(fields, doc_ids=doc_ids)
Update(fields, cond, byIds, doc_ids) ==
    LET r == UpdateCall(storage, query_cache, capacity, fields, cond, byIds, doc_ids)
    IN  /\ query_cache' = r.cache
        /\ last' = [Call("update", r.outcome, Length)
                       EXCEPT !.document = fields, !.cond = cond, !.byIds = byIds,
                              !.doc_ids = doc_ids, !.retIds = r.updated]
        /\ UNCHANGED <<wvars, storage, aliased, capacity, next_id>>

\* upsert(document, cond); doc_id is the ID the document carries, if any
Upsert(document, doc_id, cond) ==
    LET r == UpsertCall(storage, query_cache, capacity, next_id, document, doc_id, cond)
    IN  /\ Bounded(r.next_id)
        /\ next_id' = r.next_id
        /\ storage' = r.storage
        /\ query_cache' = r.cache
        /\ last' = [Call("upsert", r.outcome, Length)
                       EXCEPT !.document = document, !.doc_id = doc_id, !.cond = cond,
                              !.allocated = Allocated(r.next_id),
                              !.retIds = Ret(r.outcome, r.ret, <<>>)]
        /\ UNCHANGED <<wvars, aliased, capacity>>

\* remove(cond) and remove(doc_ids=doc_ids)
Remove(cond, byIds, doc_ids) ==
    LET r == RemoveCall(storage, query_cache, capacity, aliased, cond, byIds, doc_ids)
    IN  /\ storage' = r.storage
        /\ query_cache' = r.cache
        /\ last' = [Call("remove", r.outcome, Length)
                       EXCEPT !.cond = cond, !.byIds = byIds, !.doc_ids = doc_ids]
        /\ UNCHANGED <<wvars, aliased, capacity, next_id>>

\* truncate()
Truncate ==
    LET r == TruncateCall(storage, query_cache)
    IN  /\ storage' = r.storage
        /\ query_cache' = r.cache
        /\ last' = Call("truncate", r.outcome, Length)
        /\ UNCHANGED <<wvars, aliased, capacity, next_id>>

\* clear_cache()
ClearCache ==
    /\ query_cache' = CacheClear
    /\ last' = Call("clear_cache", "ok", Length)
    /\ UNCHANGED <<wvars, storage, aliased, capacity, next_id>>

Next ==
    \/ \E document \in Mappings : Insert(document)
    \/ \E documents \in DocLists : InsertMultiple(documents)
    \/ AllOp
    \/ \E cond \in Conds : SearchOp(cond)
    \/ \E doc_id \in IDs : GetId(doc_id)
    \/ \E doc_ids \in IdLists : GetIds(doc_ids)
    \/ \E cond \in Queries : GetCond(cond)
    \/ \E doc_id \in IDs : ContainsIdOp(doc_id)
    \/ \E cond \in Queries : ContainsCond(cond)
    \/ \E cond \in Queries : Count(cond)
    \/ LenOp
    \/ IterOp
    \/ \E fields \in Payloads, cond \in Conds : Update(fields, cond, FALSE, <<>>)
    \/ \E fields \in Payloads, doc_ids \in IdLists : Update(fields, NoCond, TRUE, doc_ids)
    \/ \E document \in Payloads, cond \in Conds : Upsert(document, None, cond)
    \/ \E document \in Payloads, doc_id \in IDs : Upsert(document, Some(doc_id), NoCond)
    \/ \E cond \in Conds : Remove(cond, FALSE, <<>>)
    \/ \E doc_ids \in IdLists : Remove(NoCond, TRUE, doc_ids)
    \/ Truncate
    \/ ClearCache

Spec == Init /\ [][Next]_vars

(* ---------------------------- _update_table, line by line -------------- *)

\* Two callers run _update_table(updater) on one Table; caller w's updater
\* stores the document {'x': w} under ID w.  The lines of the two calls
\* interleave freely unless the callers hold the mutex.

WriterDoc(w) == {<<"x", w>>}

\* updater(table): table[w] = {'x': w}
Updater(tbl, w) ==
    [i \in DOMAIN tbl \cup {w} |-> IF i = w THEN WriterDoc(w) ELSE tbl[i]]

\* data[self._name] = {}: the table's entry reset instead of read
EnsureEmpty(snapshot, s) ==
    [n \in DOMAIN snapshot \cup {Name} |->
        IF n = Name THEN EmptyTable ELSE snapshot[n]]

\* data[self._name] = self._read_table()
Ensure(snapshot, s) ==
    [n \in DOMAIN snapshot \cup {Name} |->
        IF n = Name THEN ReadTable(s) ELSE snapshot[n]]

\* the caller enters _update_table, taking the mutex first when the callers
\* are with_mutex
Begin(w) ==
    /\ pc[w] = "idle"
    /\ with_mutex => lock = None
    /\ lock' = IF with_mutex THEN Some(w) ELSE lock
    /\ pc' = [pc EXCEPT ![w] = "read"]
    /\ UNCHANGED <<storage, aliased, capacity, query_cache, next_id, last, with_mutex, local_data>>

\* data = self._storage.read().  With an aliasing storage data is the
\* mapping the storage holds, so the caller keeps no snapshot of its own.
ReadSnapshot(w) ==
    /\ pc[w] = "read"
    /\ local_data' = IF aliased THEN local_data ELSE [local_data EXCEPT ![w] = StorageRead(storage)]
    /\ pc' = [pc EXCEPT ![w] = "ensure"]
    /\ UNCHANGED <<storage, aliased, capacity, query_cache, next_id, last, with_mutex, lock>>

\* data[self._name] = self._read_table(): a second read of the storage
EnsureTable(w) ==
    /\ pc[w] = "ensure"
    /\ IF aliased
       THEN storage' = Ensure(storage, storage) /\ local_data' = local_data
       ELSE local_data' = [local_data EXCEPT ![w] = Ensure(local_data[w], storage)] /\ storage' = storage
    /\ pc' = [pc EXCEPT ![w] = "updater"]
    /\ UNCHANGED <<aliased, capacity, query_cache, next_id, last, with_mutex, lock>>

\* updater(data[self._name])
ApplyUpdater(w) ==
    /\ pc[w] = "updater"
    /\ IF aliased
       THEN storage' = [storage EXCEPT ![Name] = Updater(@, w)] /\ local_data' = local_data
       ELSE local_data' = [local_data EXCEPT ![w][Name] = Updater(@, w)] /\ storage' = storage
    /\ pc' = [pc EXCEPT ![w] = "write"]
    /\ UNCHANGED <<aliased, capacity, query_cache, next_id, last, with_mutex, lock>>

\* self._storage.write(data)
WriteSnapshot(w) ==
    /\ pc[w] = "write"
    /\ storage' = StorageWrite(storage, IF aliased THEN storage ELSE local_data[w])
    /\ pc' = [pc EXCEPT ![w] = "clear"]
    /\ UNCHANGED <<aliased, capacity, query_cache, next_id, last, with_mutex, lock, local_data>>

\* self._query_cache.clear(), and the call returns (releasing the mutex)
ClearAndReturn(w) ==
    /\ pc[w] = "clear"
    /\ query_cache' = CacheClear
    /\ lock' = IF with_mutex THEN None ELSE lock
    /\ pc' = [pc EXCEPT ![w] = "done"]
    /\ UNCHANGED <<storage, aliased, capacity, next_id, last, with_mutex, local_data>>

\* The Table has answered one search before the callers start.
InitWriters ==
    /\ \E S \in SUBSET {Name}, tbl \in TableData :
          /\ S = {} => tbl = EmptyTable
          /\ storage = [n \in S \cup {OtherName} |->
                          IF n = Name THEN tbl ELSE [i \in {1} |-> {<<"x", 1>>}]]
    /\ aliased \in BOOLEAN
    /\ capacity \in {0, default_query_cache_capacity}
    /\ query_cache = Search(storage, CacheClear, capacity, "x1").cache
    /\ next_id = None
    /\ last = Call("init", "ok", 0)
    /\ with_mutex \in BOOLEAN
    /\ lock = None
    /\ pc = [w \in Writers |-> "idle"]
    /\ local_data = [w \in Writers |-> EmptySnapshot]

NextWriters ==
    \/ \E w \in Writers : Begin(w)
    \/ \E w \in Writers : ReadSnapshot(w)
    \/ \E w \in Writers : EnsureTable(w)
    \/ \E w \in Writers : ApplyUpdater(w)
    \/ \E w \in Writers : WriteSnapshot(w)
    \/ \E w \in Writers : ClearAndReturn(w)

SpecWriters == InitWriters /\ [][NextWriters]_vars

(* ---------------------------- a second insert path -------------------- *)

\* Another insert path (a second handle on the same storage and name) stores
\* a document under max(existing IDs) + 1 without going through this Table:
\* this Table's _next_id and query cache are not told.
ExternalInsert(document) ==
    LET tbl == ReadTable(storage)
        doc_id == Max(DOMAIN tbl \cup {0}) + 1
    IN  /\ doc_id <= MaxNextId
        /\ storage' = [n \in DOMAIN storage \cup {Name} |->
                         IF n = Name
                         THEN [i \in DOMAIN tbl \cup {doc_id} |->
                                 IF i = doc_id THEN document ELSE tbl[i]]
                         ELSE storage[n]]
        /\ UNCHANGED <<wvars, aliased, capacity, query_cache, next_id, last>>

NextShared ==
    \/ \E document \in Mappings : Insert(document)
    \/ \E document \in Payloads : ExternalInsert(document)
    \/ \E doc_id \in IDs : ContainsIdOp(doc_id)

SpecShared == Init /\ [][NextShared]_vars

(* ---------------------------- properties ------------------------------- *)

\* the documents search(cond) has to return: a linear scan of the table
Scan(s, cond) == SelectSeq(All(s), LAMBDA d : Eval(cond, d.fields))

\* a call that allocated an ID: insert, insert_multiple, or an upsert that
\* reached insert
Allocating ==
    last.op \in {"insert", "insert_multiple", "upsert"} /\ last.allocated # None

\* C1 (state part): no two documents of the table share an ID, and after a
\* call that allocated an ID the next ID the allocator hands out is greater
\* than every existing ID.
C1_NextIdAboveMax ==
    /\ \A j, k \in 1..Len(All(storage)) :
          All(storage)[j].doc_id = All(storage)[k].doc_id => j = k
    /\ Allocating =>
          \A i \in DOMAIN ReadTable(storage) : GetNextId(storage, next_id) > i

\* C1 (step part): the ID a call allocates is the ID of no document the
\* table holds when the call starts.
C1_FreshId ==
    Allocating' => last'.allocated[1] \notin DOMAIN ReadTable(storage)

\* C1: in every reachable state the IDs of the table's documents are
\* pairwise distinct; the ID an insert allocates is never the ID of an
\* existing document; and right after an insert the allocator's next value
\* exceeds the maximum existing ID.
C1_UniqueIds == []C1_NextIdAboveMax /\ [][C1_FreshId]_vars

\* C1 witness: an insert has allocated an ID while the table held documents.
C1_Witness ==
    /\ last.op = "insert" /\ last.allocated # None
    /\ DOMAIN ReadTable(storage) # {}
    /\ next_id # None /\ next_id[1] >= 2

\* C2: a write operation (insert, update, remove, truncate) that returns
\* leaves the query cache empty.
C2_WriteClearsCache ==
    (last.op \in {"insert", "update", "remove", "truncate"} /\ last.outcome = "ok")
        => query_cache = CacheClear

\* C3: search(cond) returns exactly the documents now stored in the table
\* that satisfy cond, in the order of a linear scan.
C3_SearchIsScan ==
    (last.op = "search" /\ last.cond \in Queries)
        => (last.outcome = "ok" /\ last.retDocs = Scan(storage, last.cond))

\* C4: insert(D) returns an ID >= 1 and get(doc_id=ID) then returns the
\* Document with D's fields and that ID.
C4_InsertThenGet ==
    last.op = "insert"
        => /\ last.outcome = "ok"
           /\ last.retInt >= 1
           /\ GetById(storage, last.retInt) = <<Document(last.document, last.retInt)>>

\* C5: insert keeps every document the table held, with its ID and fields,
\* and adds exactly one document: the length grows by 1.
C5_InsertAddsOne ==
    [][last'.op = "insert"
        => /\ \A i \in DOMAIN ReadTable(storage) :
                 /\ i \in DOMAIN ReadTable(storage')
                 /\ ReadTable(storage')[i] = ReadTable(storage)[i]
           /\ Cardinality(DOMAIN ReadTable(storage'))
                 = Cardinality(DOMAIN ReadTable(storage)) + 1]_vars

\* C6: get(doc_id=i) returns None exactly when the table holds no document
\* with ID i, and so agrees with contains(doc_id=i).
C6_GetNoneIffAbsent ==
    (last.op = "get" /\ last.doc_id # None)
        => (last.retDocs = <<>> <=> ~ContainsId(storage, last.doc_id[1]))

\* C7: remove(p) followed by contains(p) returns false, and the length after
\* the remove is the length before it minus the number of IDs it returned.
C7_RemoveThenContains ==
    [][(/\ last.op = "remove" /\ last.cond \in Queries
        /\ last'.op = "contains" /\ last'.cond = last.cond)
        => /\ last.outcome = "ok"
           /\ last'.retBool = FALSE
           /\ Length = last.lenBefore - Len(last.retIds)]_vars

\* C8: truncate() followed by insert(d) returns ID 1 and the length is 1.
C8_TruncateThenInsert ==
    [][(last.op = "truncate" /\ last'.op = "insert")
        => /\ last'.outcome = "ok"
           /\ last'.retInt = 1
           /\ Cardinality(DOMAIN ReadTable(storage')) = 1]_vars

\* C9: upsert of a Document carrying an existing ID returns [that ID] and
\* keeps the length; upsert of a plain mapping with a predicate that
\* matches no document returns the one new ID and the length grows by 1.
C9_Upsert ==
    [][last'.op = "upsert"
        => /\ (last'.doc_id # None /\ ContainsId(storage, last'.doc_id[1]))
                => /\ last'.outcome = "ok"
                   /\ last'.retIds = last'.doc_id
                   /\ DOMAIN ReadTable(storage') = DOMAIN ReadTable(storage)
           /\ (last'.doc_id = None /\ last'.cond \in Queries
                  /\ Scan(storage, last'.cond) = <<>>)
                => /\ last'.outcome = "ok"
                   /\ Len(last'.retIds) = 1
                   /\ DOMAIN ReadTable(storage')
                         = DOMAIN ReadTable(storage) \cup {last'.retIds[1]}
                   /\ Cardinality(DOMAIN ReadTable(storage'))
                         = Cardinality(DOMAIN ReadTable(storage)) + 1]_vars

\* C10: upsert with a plain mapping and no predicate is rejected in every
\* table state: the call fails fast, before it starts an insert (no ID is
\* allocated), and the stored snapshot is unchanged.
C10_UpsertNoSelector ==
    [][(last'.op = "upsert" /\ last'.doc_id = None /\ last'.cond = NoCond)
        => /\ last'.outcome # "ok"
           /\ storage' = storage
           /\ next_id' = next_id]_vars

\* a mapping payload merged into a document: the payload's fields are
\* overwritten or added, the other fields stay
Merged(fields, payload) ==
    {p \in fields : \A q \in payload : q[1] # p[1]} \cup payload

\* the targets of update(fields, cond) / update(fields, doc_ids=doc_ids) on
\* the snapshot s: the given IDs that exist, in the order given, or the IDs
\* of the documents cond matches, in scan order
Targets(s, cond, byIds, doc_ids) ==
    IF byIds THEN SelectSeq(doc_ids, LAMBDA i : ContainsId(s, i))
    ELSE [k \in 1..Len(Scan(s, cond)) |-> Scan(s, cond)[k].doc_id]

\* C11: update with a mapping payload returns the IDs of exactly its
\* targets, merges the payload into each target, and leaves every other
\* document and every document's ID as it was.
C11_UpdateTargets ==
    [][(last'.op = "update" /\ (last'.byIds \/ last'.cond \in Queries))
        => LET targets == Targets(storage, last'.cond, last'.byIds, last'.doc_ids)
               hit == {targets[k] : k \in 1..Len(targets)}
           IN  /\ last'.outcome = "ok"
               /\ last'.retIds = targets
               /\ DOMAIN ReadTable(storage') = DOMAIN ReadTable(storage)
               /\ \A i \in DOMAIN ReadTable(storage) :
                     ReadTable(storage')[i] =
                        IF i \in hit
                        THEN Merged(ReadTable(storage)[i], last'.document)
                        ELSE ReadTable(storage)[i]]_vars

ReadOps == {"all", "search", "get", "contains", "count", "len", "iter"}

WriteOps == {"insert", "insert_multiple", "update", "upsert", "remove", "truncate"}

\* C12: a read operation (all, search, get, contains, count, len, iteration)
\* leaves the persisted snapshot as it was, and a step that changes the
\* snapshot belongs to a write-class operation.
C12_ReadsDoNotWrite ==
    [][/\ last'.op \in ReadOps => storage' = storage
       /\ storage' # storage => last'.op \in WriteOps]_vars

\* C12 witness: len() has read a table the snapshot does not hold, and the
\* snapshot still does not hold it.
C12_Witness ==
    /\ last.op = "len" /\ last.retInt = 0
    /\ Name \notin DOMAIN storage

C14_CounterIsLastId ==
    Allocating => next_id = last.allocated

\* the ID a call allocates is greater than the ID allocated before it
C14_Increasing ==
    /\ next_id' # next_id => Allocating'
    /\ (Allocating' /\ next_id # None) => last'.allocated[1] > next_id[1]

\* C14: the IDs that successive inserts through one Table obtain are strictly
\* increasing in the order of the inserts, whatever other calls are made in
\* between.
C14_IdsIncrease == []C14_CounterIsLastId /\ [][C14_Increasing]_vars

\* C14 witness: at least two inserts have obtained an ID from this Table over
\* an unchanged table, the last one through the counter.
C14_Witness ==
    /\ ~aliased /\ last.op = "insert" /\ last.allocated # None
    /\ last.allocated[1] >= Max(DOMAIN ReadTable(storage) \cup {0}) + 2

\* C15: an insert that aborts because the storage write failed leaves the
\* Table's in-memory state as it was before the call: the query cache keeps
\* its entries and the ID allocator is not advanced.
C15_FailedWriteKeepsState ==
    [][(last'.op = "insert" /\ last'.outcome # "ok")
       => (query_cache' = query_cache /\ next_id' = next_id)]_vars

\* C16: remove(doc_ids=...) returns the IDs it removed and leaves, as the
\* result of its one snapshot write, the table without every removed
\* document; when none of the IDs exists (remove(doc_ids=[1,2]) on an empty
\* table) it returns [] and the stored contents are unchanged.
C16_RemovePersistsOnce ==
    [][(last'.op = "remove" /\ last'.byIds)
       => LET targets == Targets(storage, NoCond, TRUE, last'.doc_ids)
              gone == {targets[k] : k \in 1..Len(targets)}
          IN  /\ last'.outcome = "ok"
              /\ last'.retIds = targets
              /\ ReadTable(storage') =
                    [i \in DOMAIN ReadTable(storage) \ gone |-> ReadTable(storage)[i]]
              /\ gone = {} => storage' = storage]_vars

AllDone == \A w \in Writers : pc[w] = "done"

\* caller w's mutation is in the stored table
Kept(w) ==
    w \in DOMAIN ReadTable(storage) /\ ReadTable(storage)[w] = WriterDoc(w)

\* C17: when every whole read-modify-write-invalidate sequence is guarded by
\* the mutex, both callers' mutations are in the storage once both have
\* returned, in every interleaving; guarded or not, the mutation of the
\* caller that wrote last is there.  (Without the guard a mutation can be
\* lost: the witness.)
C17_GuardedKeepsAll ==
    AllDone => /\ \E w \in Writers : Kept(w)
               /\ with_mutex => \A w \in Writers : Kept(w)

\* C17 witness: both unguarded callers have returned and the storage lacks
\* the mutation of one of them.
C17_Witness ==
    AllDone /\ ~with_mutex /\ \E w \in Writers : ~Kept(w)

\* C18: once update(fields, doc_ids=...) has run with K >= 1 of its IDs in
\* the table, the call has returned and all K documents carry the payload in
\* the storage (the K mutations were persisted together).
C18_UpdatePersistsAll ==
    LET hit == {i \in DOMAIN ReadTable(storage) :
                   \E k \in 1..Len(last.doc_ids) : last.doc_ids[k] = i}
    IN  (last.op = "update" /\ last.byIds /\ hit # {})
        => /\ last.outcome = "ok"
           /\ \A i \in hit : last.document \subseteq ReadTable(storage)[i]

\* C19: once this Table's counter is warmed, an insert through it obtains an
\* ID that no document of the table occupies, also when another insert path
\* has added documents to the table in the meantime.
C19_FreshAfterExternalInsert ==
    [][(last'.op = "insert" /\ last'.allocated # None /\ next_id # None)
       => ~ContainsId(storage, last'.allocated[1])]_vars

\* C20: a call of a Table operation changes only the sub-collection stored
\* under the Table's own name: the other table names of the snapshot and
\* their sub-collections are the same after the call as before it.
C20_OtherTablesUntouched ==
    [][/\ DOMAIN storage' \ {Name} = DOMAIN storage \ {Name}
       /\ \A n \in DOMAIN storage \ {Name} : storage'[n] = storage[n]]_vars

\* C20 witness: a remove has taken documents out of this table while the
\* snapshot holds another table.
C20_Witness ==
    /\ last.op = "remove" /\ Length < last.lenBefore
    /\ OtherName \in DOMAIN storage /\ storage[OtherName] # EmptyTable

=============================================================================
